---------------------------- MODULE Spec2Model ----------------------------
(***************************************************************************)
(* Model of pandas_datareader/base.py: the fetch-retry-normalize pipeline  *)
(* of _BaseReader and _DailyBaseReader.                                     *)
(*                                                                         *)
(*   Spec        one _BaseReader: __init__, then read() and close()         *)
(*   SpecLive    Spec, with the reader running to its end                   *)
(*   SpecDaily   one _DailyBaseReader: __init__, then read() and close()    *)
(*   SpecLines   _read_lines applied to parsed tables                       *)
(*   SpecChunks  the _in_chunks generator                                   *)
(***************************************************************************)
EXTENDS Integers, Sequences, FiniteSets

(***************************************************************************)
(* Bounds of the model.                                                     *)
(***************************************************************************)
MaxRetry == 2
MaxSymbols == 3
MaxChunk == 2
MaxRows == 3
MaxSeqLen == 60
MaxSize == 25
MaxReads == 2
MaxCloses == 1
MaxFetches == 4

(***************************************************************************)
(* Values.                                                                  *)
(***************************************************************************)
Url == "http://host/q"
NaN == "nan"
NoTable == <<>>
NoErr == [type |-> "none", msg |-> <<>>]
NoneParams == [type |-> "none", items |-> <<>>]
Symbols == {"A", "B", "C"}
Dates == {1, 2}
Values == {"x", "y"}

Min(a, b) == IF a < b THEN a ELSE b

\* Sequences over S of length at most n.
SeqsUpTo(S, n) == UNION {[1..k -> S] : k \in 0..n}

\* Reversal of a sequence: the slice [::-1].
Reverse(s) == [i \in 1..Len(s) |-> s[Len(s) + 1 - i]]

\* self.__class__.__name__
ClassName(k) == IF k = "daily" THEN "_DailyBaseReader" ELSE "_BaseReader"

VARIABLES
    kind,               \* "base" (_BaseReader) or "daily" (_DailyBaseReader)
    pc,                 \* "new", "ready", "symbol", "done", and in the loop of
                        \* _get_response "get" (before session.get), "wait"
                        \* (in session.get), "sleep" (in time.sleep)
    arg_retry_count,    \* the retry_count argument given to __init__
    retry_count,        \* self.retry_count
    pause,              \* self.pause
    pause_multiplier,   \* self.pause_multiplier
    session,            \* self.session: "none" (not initialised), "open", or
                        \* "closed" (close() was the latest call on it)
    session_get,        \* whose get self.session has: "requests" or "custom"
    symbols,            \* self.symbols: [single |-> BOOLEAN, seq |-> sequence]
    chunksize,          \* self.chunksize
    provider,           \* what the concrete subclass overrides
    cur_params,         \* params of the running _get_response call
    cur_pause,          \* local pause of _get_response
    last_response_text, \* local last_response_text of _get_response
    responses,          \* response of every GET of the running _get_response call
    returned,           \* the response the running _get_response call returned
    sleeps,             \* argument of every time.sleep of the running call
    stopped,            \* _output_error returned True in the running call
    gets,               \* GET requests issued by session.get since construction
    gets0,              \* gets when the running call of _get_response began
    reads,              \* calls of read() begun
    closes,             \* calls of session.close
    pos,                \* index into the flattened chunks of _dl_mult_symbols
    stocks,             \* _dl_mult_symbols: symbol -> table
    passed,             \* _dl_mult_symbols: passed
    failed,             \* _dl_mult_symbols: failed
    warned,             \* symbols named by the SymbolWarnings the call of
                        \* read() that runs, or ran last, has emitted
    fetched,            \* the table _read_one_data returned for each of passed
    begun,              \* the sym of every fetch (line 247 or 262) that call
                        \* of read() has begun so far
    exc,                \* type of the exception the latest fetch raised, "none"
                        \* while it runs and when it returned
    err,                \* the exception the operation raised, NoErr if none
    result,             \* the value the operation returned
    rs_in,              \* SpecLines: rows read_csv parsed, in source order
    rs_out,             \* SpecLines: what _read_lines returned
    seq,                \* SpecChunks: the sequence given to _in_chunks
    size,               \* SpecChunks: the chunk size
    cpos,               \* SpecChunks: next value of pos of the generator
    chunks              \* SpecChunks: chunks yielded so far

config_vars == <<kind, arg_retry_count, retry_count, pause, pause_multiplier,
                 symbols, chunksize, provider, session_get>>
call_vars == <<cur_params, cur_pause, last_response_text, responses, returned,
               sleeps, stopped, gets0>>
batch_vars == <<pos, stocks, passed, failed, warned, fetched>>
trace_vars == <<begun, exc>>
lines_vars == <<rs_in, rs_out>>
chunk_vars == <<seq, size, cpos, chunks>>
vars == <<config_vars, pc, session, call_vars, gets, reads, closes, batch_vars,
          trace_vars, err, result, lines_vars, chunk_vars>>

(***************************************************************************)
(* Request parameters. params is None, a dict or a list; an item is a      *)
(* (key, value) pair, or (in a list) a bare string element.                 *)
(***************************************************************************)
Pair(k, v) == [key |-> k, val |-> v, pair |-> TRUE]
Bare(k) == [key |-> k, val |-> "", pair |-> FALSE]
DictParams(items) == [type |-> "dict", items |-> items]
ListParams(items) == [type |-> "list", items |-> items]

\* isinstance(params, list) and "crumb" in params
HasCrumb(p) ==
    /\ p.type = "list"
    /\ \E i \in 1..Len(p.items) : ~p.items[i].pair /\ p.items[i].key = "crumb"

\* A list with an element that is a bare string, which is no (key, value).
HasBare(p) == \E i \in 1..Len(p.items) : ~p.items[i].pair

\* k=v joined by "&", as a sequence of tokens.
RECURSIVE Joined(_)
Joined(items) ==
    IF items = <<>> THEN <<>>
    ELSE LET kv == <<Head(items).key, "=", Head(items).val>>
         IN IF Len(items) = 1 THEN kv
            ELSE kv \o <<"&">> \o Joined(Tail(items))

\* urllib.parse.urlencode(query): the encoded string (out), or what it
\* raises: TypeError when the first element of a list is no tuple, ValueError
\* when a later element does not unpack into (key, value). The bare strings
\* of the model have other lengths than 2.
urlencode(items) ==
    IF items # <<>> /\ ~items[1].pair
    THEN [raises |-> "TypeError", out |-> <<>>]
    ELSE IF \E i \in 1..Len(items) : ~items[i].pair
    THEN [raises |-> "ValueError", out |-> <<>>]
    ELSE [raises |-> "none", out |-> Joined(items)]

\* The url of the failure message: url + "?" + urlencode(params) when params
\* is not None and not empty.
FullUrl(url, p) ==
    IF p.type # "none" /\ Len(p.items) > 0
    THEN <<url, "?">> \o urlencode(p.items).out
    ELSE <<url>>

Raise(t) == [type |-> t, msg |-> <<>>]

\* What lines 169-175 raise after the loop: the RemoteDataError of
\* _get_response, or the exception of urlencode.
UnableToRead(url, p, text) ==
    IF p.type # "none" /\ Len(p.items) > 0 /\ urlencode(p.items).raises # "none"
    THEN Raise(urlencode(p.items).raises)
    ELSE [type |-> "RemoteDataError",
          msg |-> <<"Unable to read URL: ">> \o FullUrl(url, p)
                  \o (IF text # "" THEN <<"\nResponse Text:\n", text>> ELSE <<>>)]

\* The OSError _read_url_as_StringIO raises on an empty body.
NoData(k) ==
    [type |-> "OSError",
     msg |-> <<ClassName(k),
               " request returned no data; check URL for invalid inputs: ", Url>>]

\* The RemoteDataError _dl_mult_symbols raises.
NoDataFetched(k) ==
    [type |-> "RemoteDataError", msg |-> <<"No data fetched using ", ClassName(k)>>]

(***************************************************************************)
(* _read_lines. A table is a sequence of rows [date, val]; rows is what     *)
(* read_csv parsed, in source order.                                        *)
(***************************************************************************)
Row(d, v) == [date |-> d, val |-> v]

\* len(rs) > 2 and rs.index[-1] == rs.index[-2]
DropsDuplicate(rs) == Len(rs) > 2 /\ rs[Len(rs)].date = rs[Len(rs) - 1].date

read_lines(rows) ==
    LET rs == Reverse(rows)
    IN IF DropsDuplicate(rs) THEN SubSeq(rs, 1, Len(rs) - 1) ELSE rs

\* df_na = stocks[passed[0]].copy(); df_na[:] = np.nan
AllNaN(tbl) == [i \in 1..Len(tbl) |-> Row(tbl[i].date, NaN)]

(***************************************************************************)
(* _in_chunks.                                                              *)
(***************************************************************************)
\* A faulty variant: the slice ends one element early.
SliceShort(s, a, b) == SubSeq(s, a + 1, Min(b, Len(s)) - 1)
\* seq[a:b] for 0 <= a <= b
Slice(s, a, b) == SubSeq(s, a + 1, Min(b, Len(s)))

\* range(0, stop, step) as a sequence
Range0(stop, step) ==
    [i \in 1..((stop + step - 1) \div step) |-> (i - 1) * step]

\* (seq[pos : pos + size] for pos in range(0, len(seq), size)), all of it
in_chunks(s, n) ==
    LET r == Range0(Len(s), n)
    IN [i \in 1..Len(r) |-> Slice(s, r[i], r[i] + n)]

RECURSIVE Flatten(_)
Flatten(cs) == IF cs = <<>> THEN <<>> ELSE Head(cs) \o Flatten(Tail(cs))

(***************************************************************************)
(* Results, responses and what the provider (the concrete subclass)        *)
(* supplies.                                                                *)
(***************************************************************************)
NoResult == [kind |-> "none"]
Table(t) == [kind |-> "table", rows |-> t]

\* The elements of a set of dates in ascending order.
RECURSIVE SortedDates(_)
SortedDates(S) ==
    IF S = {} THEN <<>>
    ELSE LET m == CHOOSE d \in S : \A e \in S : d <= e
         IN <<m>> \o SortedDates(S \ {m})

DatesOf(tbl) == {tbl[i].date : i \in 1..Len(tbl)}

\* A date is the index of two rows of the frame.
HasDuplicates(tbl) == \E i, j \in 1..Len(tbl) : i < j /\ tbl[i].date = tbl[j].date

\* The value of the frame at date d, NaN when it has no row for d.
At(tbl, d) ==
    IF d \in DatesOf(tbl)
    THEN tbl[CHOOSE i \in 1..Len(tbl) : tbl[i].date = d].val
    ELSE NaN

\* concat(stocks, sort=True).unstack(level=0), with the column names of line
\* 279, for frames without duplicate dates: one row for every date of any
\* frame, in ascending order, and for every symbol its value at that date,
\* NaN where its frame has none.
Wide(st) ==
    LET index == SortedDates(UNION {DatesOf(st[s]) : s \in DOMAIN st})
    IN [kind |-> "wide", names |-> <<"Attributes", "Symbols">>,
        stocks |-> [s \in DOMAIN st |->
                       [k \in 1..Len(index) |-> Row(index[k], At(st[s], index[k]))]]]
NoStocks == [s \in {} |-> <<>>]

\* requests.codes.ok
Ok == 200

\* Responses of the endpoint. The content of a 200 response is empty, not
\* parseable, or delimited text with the rows read_csv parses from it
\* (newest first); another response has an error page for its text, which
\* _get_response reads when the response has an encoding.
T1 == <<Row(1, "x")>>
T2 == <<Row(2, "y"), Row(2, "x"), Row(1, "x")>>
T3 == <<Row(2, "y"), Row(2, "x")>>
NoResponse == [status |-> 0, content |-> "", rows |-> <<>>, encoding |-> FALSE]
Responses ==
    {[status |-> Ok, content |-> "empty", rows |-> <<>>, encoding |-> TRUE],
     [status |-> Ok, content |-> "bad", rows |-> <<>>, encoding |-> TRUE],
     [status |-> Ok, content |-> "csv", rows |-> T1, encoding |-> TRUE],
     [status |-> Ok, content |-> "csv", rows |-> T2, encoding |-> TRUE],
     [status |-> Ok, content |-> "csv", rows |-> T3, encoding |-> TRUE]}
    \cup [status : {404}, content : {"error page"}, rows : {<<>>},
          encoding : BOOLEAN]

\* retry_count arguments: integers from -1 up, and one that is no integer.
RetryArgs ==
    {[int |-> TRUE, val |-> v] : v \in -1..MaxRetry} \cup {[int |-> FALSE, val |-> 0]}

ParamsChoices ==
    {NoneParams, DictParams(<<>>), DictParams(<<Pair("s", "A")>>),
     DictParams(<<Pair("s", "A"), Pair("crumb", "c0")>>),
     ListParams(<<Pair("s", "A")>>), ListParams(<<Pair("s", "A"), Bare("crumb")>>),
     ListParams(<<Pair("s", "A"), Bare("token")>>), ListParams(<<Bare("token")>>)}

Formats == {"string", "json", "other"}
Hooks == {"default", "custom"}

\* url and params are properties, _format a class attribute, the others
\* methods: "default" is the method of base.py, "custom" an override.
\* pause_multiplier is reset by subclasses after __init__ set it to 1.
Providers(paramsChoices, multipliers) ==
    [url : BOOLEAN, format : Formats, params : paramsChoices,
     output_error : Hooks, get_crumb : Hooks, get_params : Hooks,
     pause_multiplier : multipliers]

NoProvider ==
    [url |-> FALSE, format |-> "string", params |-> NoneParams,
     output_error |-> "default", get_crumb |-> "default", get_params |-> "default",
     pause_multiplier |-> 1]

\* The exception classes that are OSErrors: RemoteDataError (of _utils) is an
\* IOError, which is OSError, and the JSONDecodeError of requests (2.27 and
\* later) is a RequestException, which is an IOError too.
IsOSError(t) == t \in {"OSError", "RemoteDataError", "JSONDecodeError"}

\* A faulty variant: every exception is caught.
RecoverableAny(e) == e.type # "none"
\* A faulty variant: a KeyError is not caught.
RecoverableOSErrorOnly(e) == IsOSError(e.type)
\* except (OSError, KeyError)
Recoverable(e) == IsOSError(e.type) \/ e.type = "KeyError"

(***************************************************************************)
(* Initial state: nothing constructed.                                      *)
(***************************************************************************)
InitIdle ==
    /\ kind = "base"
    /\ arg_retry_count = [int |-> TRUE, val |-> 0]
    /\ retry_count = 0
    /\ pause = 0
    /\ pause_multiplier = 0
    /\ session = "none"
    /\ session_get = "requests"
    /\ symbols = [single |-> TRUE, seq |-> <<>>]
    /\ chunksize = 0
    /\ provider = NoProvider
    /\ cur_params = NoneParams
    /\ cur_pause = 0
    /\ last_response_text = ""
    /\ responses = <<>>
    /\ returned = NoResponse
    /\ sleeps = <<>>
    /\ stopped = FALSE
    /\ gets = 0
    /\ gets0 = 0
    /\ reads = 0
    /\ closes = 0
    /\ pos = 0
    /\ stocks = NoStocks
    /\ passed = <<>>
    /\ failed = <<>>
    /\ warned = <<>>
    /\ fetched = <<>>
    /\ begun = <<>>
    /\ exc = "none"
    /\ err = NoErr
    /\ result = NoResult

InitNoLines == rs_in = <<>> /\ rs_out = <<>>
InitNoChunks == seq = <<>> /\ size = 1 /\ cpos = 0 /\ chunks = <<>>

Init == pc = "new" /\ InitIdle /\ InitNoLines /\ InitNoChunks

(***************************************************************************)
(* __init__ (lines 43-68, and 220-238 for the daily reader).                *)
(***************************************************************************)
\* A faulty variant: 0 is refused, as the message of the ValueError has it.
ValidRetryCountPositive(a) == a.int /\ a.val > 0
\* not (not isinstance(retry_count, int) or retry_count < 0)
ValidRetryCount(a) == a.int /\ a.val >= 0

\* The dates (line 56), timeout, freq and headers play no part in what
\* follows and are left out. pause_multiplier is 1 after line 65; a subclass
\* that backs off assigns its own after super().__init__ (lines 159-160).
\* chunksize is the daily reader's (line 238).
Construct(k, a, p, prov, sg, syms, cs) ==
    /\ pc = "new"
    /\ kind' = k
    /\ arg_retry_count' = a
    /\ symbols' = syms
    /\ provider' = prov
    /\ session_get' = sg
    /\ IF ValidRetryCount(a)
       THEN /\ retry_count' = a.val
            /\ pause' = p
            /\ pause_multiplier' = prov.pause_multiplier
            /\ session' = "open"
            /\ chunksize' = cs
            /\ err' = NoErr
            /\ pc' = "ready"
       ELSE /\ err' = [type |-> "ValueError",
                       msg |-> <<"'retry_count' must be integer larger than 0">>]
            /\ pc' = "done"
            /\ UNCHANGED <<retry_count, pause, pause_multiplier, session, chunksize>>
    /\ UNCHANGED <<call_vars, gets, reads, closes, batch_vars, trace_vars, result,
                   lines_vars, chunk_vars>>

(***************************************************************************)
(* How an operation ends. Complete(e, tbl) is the return of one             *)
(* _read_one_data call to its caller, with the exception e it raised        *)
(* (NoErr: it returned tbl), and everything the caller then does.           *)
(***************************************************************************)
\* A faulty variant: every symbols input is taken for a collection.
IsSingleNever(syms) == FALSE
\* isinstance(self.symbols, (str, int))
IsSingle(syms) == syms.single

\* A faulty variant: the collection is walked from its end.
VisitsBackwards == Reverse(symbols.seq)
\* The symbols _dl_mult_symbols visits, in order: every sym of every sym_group.
Visits == Flatten(in_chunks(symbols.seq, chunksize))

\* Lines 269-284, with the loop's stocks, passed and failed. The placeholder
\* is assigned into stocks (line 277) before line 278 builds the frame, which
\* raises ValueError when a frame has a date twice. An unbound local 'result'
\* at 'return result' is an UnboundLocalError.
DlMultEnd(st, pa, fa) ==
    IF Len(pa) = 0
    THEN [err |-> NoDataFetched(kind), result |-> NoResult, stocks |-> st]
    ELSE IF st # NoStocks /\ Len(fa) > 0 /\ Len(pa) > 0
         THEN LET df_na == AllNaN(st[pa[1]])
                  fs == {fa[i] : i \in 1..Len(fa)}
                  filled == [s \in DOMAIN st \cup fs |->
                                IF s \in fs THEN df_na ELSE st[s]]
              IN IF \E s \in DOMAIN filled : HasDuplicates(filled[s])
                 THEN [err |-> Raise("ValueError"), result |-> NoResult,
                       stocks |-> filled]
                 ELSE [err |-> NoErr, result |-> Wide(filled), stocks |-> filled]
         ELSE [err |-> Raise("UnboundLocalError"), result |-> NoResult, stocks |-> st]

\* A faulty variant: read() without its finally clause.
CloseNever(s) == s
\* self.session.close(), line 72
CloseSession(s) == "closed"

\* read() of _BaseReader, lines 93-96: the finally clause closes the session.
CompleteBase(e, tbl) ==
    /\ err' = e
    /\ exc' = e.type
    /\ result' = IF e = NoErr THEN Table(tbl) ELSE NoResult
    /\ session' = CloseSession(session)
    /\ closes' = closes + 1
    /\ pc' = "done"
    /\ UNCHANGED batch_vars

\* read() of _DailyBaseReader on a single symbol, lines 246-247 and 253.
CompleteSingle(e, tbl) ==
    /\ err' = e
    /\ exc' = e.type
    /\ result' = IF e = NoErr THEN Table(tbl) ELSE NoResult
    /\ pc' = "done"
    /\ UNCHANGED <<session, closes, batch_vars>>

\* The body of the loops of _dl_mult_symbols for one sym, lines 261-267,
\* then the next sym or lines 269-284.
CompleteMult(e, tbl) ==
    LET sym == Visits[pos]
        caught == Recoverable(e)
        st == IF e = NoErr
              THEN [s \in DOMAIN stocks \cup {sym} |-> IF s = sym THEN tbl ELSE stocks[s]]
              ELSE stocks
        pa == IF e = NoErr THEN Append(passed, sym) ELSE passed
        fa == IF caught THEN Append(failed, sym) ELSE failed
        end == DlMultEnd(st, pa, fa)
    IN /\ passed' = pa
       /\ failed' = fa
       /\ exc' = e.type
       /\ warned' = IF caught THEN Append(warned, sym) ELSE warned
       /\ fetched' = IF e = NoErr THEN Append(fetched, tbl) ELSE fetched
       /\ UNCHANGED <<session, closes>>
       /\ IF e # NoErr /\ ~caught
          THEN /\ err' = e
               /\ result' = NoResult
               /\ stocks' = st
               /\ pc' = "done"
               /\ pos' = pos
          ELSE IF pos < Len(Visits)
               THEN /\ pos' = pos + 1
                    /\ stocks' = st
                    /\ pc' = "symbol"
                    /\ UNCHANGED <<err, result>>
               ELSE /\ err' = end.err
                    /\ result' = end.result
                    /\ stocks' = end.stocks
                    /\ pc' = "done"
                    /\ pos' = pos

Complete(e, tbl) ==
    IF kind = "base" THEN CompleteBase(e, tbl)
    ELSE IF IsSingle(symbols) THEN CompleteSingle(e, tbl)
    ELSE CompleteMult(e, tbl)

(***************************************************************************)
(* _read_one_data, up to its call of _get_response (lines 98-105, 112,      *)
(* 145-147).                                                                *)
(***************************************************************************)
ReadOneData(p) ==
    IF provider.format \in {"string", "json"}
    THEN /\ cur_params' = p
         /\ cur_pause' = pause
         /\ last_response_text' = ""
         /\ responses' = <<>>
         /\ returned' = NoResponse
         /\ sleeps' = <<>>
         /\ stopped' = FALSE
         /\ gets0' = gets
         /\ exc' = "none"
         /\ err' = NoErr
         /\ result' = NoResult
         /\ pc' = "get"
         /\ UNCHANGED <<session, closes, batch_vars>>
    ELSE /\ Complete(Raise("NotImplementedError"), NoTable)
         /\ UNCHANGED call_vars

\* What _read_url_as_StringIO (lines 113-127) or .json() (line 103), then
\* _read_lines (line 106), make of the response _get_response returned. No
\* body of the model is JSON: .json() raises the JSONDecodeError of requests
\* on each of them.
Normalize(response) ==
    IF provider.format = "json"
    THEN [err |-> Raise("JSONDecodeError"), tbl |-> NoTable]
    ELSE IF response.content = "empty"
    THEN [err |-> NoData(kind), tbl |-> NoTable]
    ELSE IF response.content # "csv"
    THEN [err |-> Raise("ParserError"), tbl |-> NoTable]
    ELSE [err |-> NoErr, tbl |-> read_lines(response.rows)]

(***************************************************************************)
(* The loop of _get_response (lines 148-167) and lines 169-175, then what   *)
(* the callers do with the outcome. A pass of the loop waits twice, in      *)
(* session.get and in time.sleep: Issue is the pass up to the call of       *)
(* session.get, Answer the pass from its return to the call of time.sleep,  *)
(* Wake the pass from the return of time.sleep.                             *)
(***************************************************************************)
\* Faulty variants: one attempt less, one attempt more.
AttemptsOneLess(n) == n
AttemptsOneMore(n) == n + 2
\* range(self.retry_count + 1)
Attempts(n) == n + 1

\* A faulty variant: the method of base.py may return True.
StopChoicesAny == BOOLEAN
\* self._output_error(response): False unless overridden
StopChoices == IF provider.output_error = "default" THEN {FALSE} ELSE BOOLEAN

\* The locals of _get_response after a step of its loop, rs the responses
\* so far and ret the response returned. A call made by the loop of
\* _dl_mult_symbols leaves no locals behind once it has returned or raised.
Locals(cp, text, rs, ret, sls, stp) ==
    LET gone == /\ kind = "daily"
                /\ ~IsSingle(symbols)
                /\ pc' \notin {"get", "wait", "sleep"}
    IN /\ cur_params' = IF gone THEN NoneParams ELSE cur_params
       /\ cur_pause' = IF gone THEN 0 ELSE cp
       /\ last_response_text' = IF gone THEN "" ELSE text
       /\ responses' = IF gone THEN <<>> ELSE rs
       /\ returned' = IF gone THEN NoResponse ELSE ret
       /\ sleeps' = IF gone THEN <<>> ELSE sls
       /\ stopped' = IF gone THEN FALSE ELSE stp
       /\ gets0' = IF gone THEN gets' ELSE gets0

\* A faulty variant: no status ends the loop.
IsOkNever(response) == FALSE
\* response.status_code == requests.codes.ok
IsOk(response) == response.status = Ok

\* A faulty variant: the pause grows by addition.
NextPauseAdded(p, m) == p + m
\* pause *= self.pause_multiplier
NextPause(p, m) == p * m

\* A faulty variant: the backoff is written back to the reader.
SelfPauseBackedOff(p, local) == local
\* self.pause after a pass of the loop, whose pause is the local one (line
\* 146): the attribute is read, never assigned.
SelfPause(p, local) == p

\* What self.session.get does with params before anything is sent: the get
\* of requests.Session encodes them and raises ValueError on a list element
\* that is no (key, value); a get of the session's own does not look at them.
GetRefuses(sg, p) == sg = "requests" /\ HasBare(p)

\* Lines 148-151: the next pass of the loop calls self.session.get, which
\* sends the request (on a new connection when the session was closed) or
\* raises.
Issue ==
    /\ pc = "get"
    /\ IF GetRefuses(session_get, cur_params)
       THEN /\ gets' = gets
            /\ Complete(Raise("ValueError"), NoTable)
            /\ Locals(cur_pause, last_response_text, responses, NoResponse, sleeps,
                      stopped)
       ELSE /\ gets' = gets + 1
            /\ session' = "open"
            /\ pc' = "wait"
            /\ UNCHANGED <<call_vars, closes, batch_vars, exc, err, result>>
    /\ UNCHANGED <<config_vars, reads, begun, lines_vars, chunk_vars>>

\* Lines 149-157: session.get returns a response. A 200 is returned to the
\* caller of _get_response; after any other the response text is kept and
\* time.sleep(pause) is called.
Answer ==
    /\ pc = "wait"
    /\ gets' = gets
    /\ \E response \in Responses :
          LET rs == Append(responses, response)
              text == IF response.encoding THEN response.content
                      ELSE last_response_text
              out == Normalize(response)
          IN IF IsOk(response)
             THEN /\ Complete(out.err, out.tbl)
                  /\ Locals(cur_pause, last_response_text, rs, response, sleeps,
                            stopped)
             ELSE /\ pc' = "sleep"
                  /\ Locals(cur_pause, text, rs, NoResponse,
                            Append(sleeps, cur_pause), stopped)
                  /\ UNCHANGED <<session, closes, batch_vars, exc, err, result>>
    /\ UNCHANGED <<config_vars, reads, begun, lines_vars, chunk_vars>>

\* Lines 157-175: time.sleep returns; the pause is multiplied, the crumb
\* line and _output_error run, and the loop goes on or ends in line 175.
Wake ==
    /\ pc = "sleep"
    /\ gets' = gets
    /\ LET cp == NextPause(cur_pause, pause_multiplier)
       IN /\ pause' = SelfPause(pause, cp)
          /\ IF HasCrumb(cur_params)
             THEN /\ Complete(Raise(IF provider.get_crumb = "default"
                                    THEN "NotImplementedError" ELSE "TypeError"),
                              NoTable)
                  /\ Locals(cp, last_response_text, responses, NoResponse, sleeps,
                            stopped)
             ELSE \E stop \in StopChoices :
                     /\ IF stop \/ Len(responses) >= Attempts(retry_count)
                        THEN Complete(UnableToRead(Url, cur_params,
                                                   last_response_text), NoTable)
                        ELSE /\ pc' = "get"
                             /\ UNCHANGED <<session, closes, batch_vars, exc, err,
                                            result>>
                     /\ Locals(cp, last_response_text, responses, NoResponse,
                               sleeps, stop)
    /\ UNCHANGED <<kind, arg_retry_count, retry_count, pause_multiplier, symbols,
                   chunksize, provider, session_get, reads, begun,
                   lines_vars, chunk_vars>>

(***************************************************************************)
(* close() and read(), the public methods.                                  *)
(***************************************************************************)
\* close() called by the user of the reader (lines 70-72), at any moment of
\* the reader's life, a wait of a running read() included.
Close ==
    /\ session # "none"
    /\ closes < MaxCloses
    /\ session' = CloseSession(session)
    /\ closes' = closes + 1
    /\ UNCHANGED <<config_vars, pc, call_vars, gets, reads, batch_vars,
                   trace_vars, err, result, lines_vars, chunk_vars>>

\* _BaseReader.read, lines 91-96, up to the first GET. read() may be called
\* again once it has returned or raised.
Read ==
    /\ pc \in {"ready", "done"}
    /\ kind = "base"
    /\ session # "none"
    /\ reads < MaxReads
    /\ reads' = reads + 1
    /\ IF provider.url
       THEN ReadOneData(provider.params)
       ELSE Complete(Raise("NotImplementedError"), NoTable) /\ UNCHANGED call_vars
    /\ UNCHANGED <<config_vars, gets, begun, lines_vars, chunk_vars>>

\* A fetch that raises before _get_response is called: no call of
\* _get_response is running and none has run in this fetch.
NoCall ==
    /\ cur_params' = NoneParams
    /\ cur_pause' = 0
    /\ last_response_text' = ""
    /\ responses' = <<>>
    /\ returned' = NoResponse
    /\ sleeps' = <<>>
    /\ stopped' = FALSE
    /\ gets0' = gets

\* self._read_one_data(self.url, self._get_params(sym)) up to the first GET:
\* the url property, then the _get_params hook, which a provider implements
\* and which may fail its lookup of the symbol.
FetchSymbol(sym, sofar) ==
    /\ begun' = Append(sofar, sym)
    /\ IF ~provider.url \/ provider.get_params = "default"
       THEN Complete(Raise("NotImplementedError"), NoTable) /\ NoCall
       ELSE \/ ReadOneData(DictParams(<<Pair("s", sym)>>))
            \/ Complete(Raise("KeyError"), NoTable) /\ NoCall

\* _DailyBaseReader.read, lines 243-253, and lines 256-260 of _dl_mult_symbols,
\* whose stocks, failed and passed are new in every call. read() may be
\* called again once it has returned or raised.
\* A call of read() begins at most one fetch per symbol: the calls taken
\* keep the fetches of the reader's life within MaxFetches.

ReadDaily ==
    /\ pc \in {"ready", "done"}
    /\ kind = "daily"
    /\ session # "none"
    /\ reads < MaxReads
    /\ Len(symbols.seq) * (reads + 1) <= MaxFetches
    /\ reads' = reads + 1
    /\ IF IsSingle(symbols)
       THEN FetchSymbol(symbols.seq[1], <<>>)
       ELSE IF Visits = <<>>
            THEN /\ err' = DlMultEnd(NoStocks, <<>>, <<>>).err
                 /\ result' = NoResult
                 /\ pc' = "done"
                 /\ NoCall
                 /\ UNCHANGED <<session, closes, batch_vars, trace_vars>>
            ELSE /\ pos' = 1
                 /\ stocks' = NoStocks
                 /\ passed' = <<>>
                 /\ failed' = <<>>
                 /\ warned' = <<>>
                 /\ fetched' = <<>>
                 /\ begun' = <<>>
                 /\ exc' = "none"
                 /\ err' = NoErr
                 /\ result' = NoResult
                 /\ pc' = "symbol"
                 /\ NoCall
                 /\ UNCHANGED <<session, closes>>
    /\ UNCHANGED <<config_vars, gets, lines_vars, chunk_vars>>

\* Lines 260-262: the next sym of the loops.
BeginSymbol ==
    /\ pc = "symbol"
    /\ FetchSymbol(Visits[pos], begun)
    /\ UNCHANGED <<config_vars, gets, reads, lines_vars, chunk_vars>>

(***************************************************************************)
(* Constructor arguments of the two specifications.                         *)
(***************************************************************************)
\* The pause argument, and the pause_multiplier of the provider: 1 as
\* __init__ sets it, or 2.
Pauses == {2}
Multipliers == {1, 2}

\* The session argument: None or a requests.Session ("requests"), or a
\* session with a get of its own ("custom").
SessionGets == {"requests", "custom"}

\* The providers a _BaseReader is run with. The two gets differ only on
\* params with a bare string, and _get_crumb is only called for params with
\* the crumb token: a session with a get of its own and an override of
\* _get_crumb are taken with such params only.
BaseProvider(prov, sg) ==
    /\ prov.get_params = "default"
    /\ sg = "custom" => HasBare(prov.params)
    /\ prov.get_crumb = "custom" => HasCrumb(prov.params)

ConstructBase ==
    /\ pc = "new"
    /\ \E a \in RetryArgs, p \in Pauses, prov \in Providers(ParamsChoices, Multipliers),
          sg \in SessionGets :
           /\ BaseProvider(prov, sg)
           /\ Construct("base", a, p, prov, sg, [single |-> TRUE, seq |-> <<"A">>], 0)

\* The reader does not look into a symbol: the collections are taken with
\* their symbols named in the order of their first occurrence.
SymbolOrder == <<"A", "B", "C">>

FirstOccurrencesInOrder(q) ==
    \A i \in 1..Len(q), k \in 1..Len(SymbolOrder) :
        (q[i] = SymbolOrder[k]) =>
            \A m \in 1..(k - 1) : \E j \in 1..(i - 1) : q[j] = SymbolOrder[m]

DailySymbols ==
    {[single |-> TRUE, seq |-> <<s>>] : s \in Symbols}
    \cup {[single |-> FALSE, seq |-> q] :
            q \in {r \in SeqsUpTo(Symbols, MaxSymbols) : FirstOccurrencesInOrder(r)}}

\* The daily reader is run with at most one retry, a session of requests and
\* without the overrides that only _get_response sees.
DailyRetryArgs == {a \in RetryArgs : a.val <= 1}

ConstructDaily ==
    /\ pc = "new"
    /\ \E a \in DailyRetryArgs, p \in Pauses, prov \in Providers({NoneParams}, {2}),
          syms \in DailySymbols, cs \in {MaxChunk} :
           /\ prov.get_crumb = "default"
           /\ prov.output_error = "default"
           /\ Construct("daily", a, p, prov, "requests", syms, cs)

Next == ConstructBase \/ Read \/ Issue \/ Answer \/ Wake \/ Close
Spec == Init /\ [][Next]_vars

\* The same reader, running: a step of a call of _get_response that can be
\* taken is taken. session.get is given the timeout of line 150, time.sleep
\* returns, and nothing else in the loop waits.
SpecLive == Init /\ [][Next]_vars /\ WF_vars(Issue \/ Answer \/ Wake)

NextDaily == ConstructDaily \/ ReadDaily \/ BeginSymbol \/ Issue \/ Answer \/ Wake \/ Close
SpecDaily == Init /\ [][NextDaily]_vars

(***************************************************************************)
(* _read_lines on its own: every table of at most MaxRows rows.             *)
(***************************************************************************)
Rows == {Row(d, v) : d \in Dates, v \in Values}

InitLines ==
    /\ pc = "lines"
    /\ InitIdle
    /\ InitNoChunks
    /\ rs_in \in SeqsUpTo(Rows, MaxRows)
    /\ rs_out = <<>>

ReadLines ==
    /\ pc = "lines"
    /\ rs_out' = read_lines(rs_in)
    /\ pc' = "done"
    /\ UNCHANGED <<config_vars, session, call_vars, gets, reads, closes, batch_vars,
                   trace_vars, err, result, rs_in, chunk_vars>>

NextLines == ReadLines
SpecLines == InitLines /\ [][NextLines]_vars

(***************************************************************************)
(* The generator _in_chunks returns, drawn to its end, on the sequences     *)
(* <<1, ..., n>>.                                                           *)
(***************************************************************************)
InitChunks ==
    /\ pc = "chunks"
    /\ InitIdle
    /\ InitNoLines
    /\ seq \in {[i \in 1..n |-> i] : n \in 0..MaxSeqLen}
    /\ size \in 1..MaxSize
    /\ cpos = 0
    /\ chunks = <<>>

\* The generator yields seq[pos : pos + size] for the next pos of the range.
NextChunk ==
    /\ pc = "chunks"
    /\ cpos < Len(seq)
    /\ chunks' = Append(chunks, Slice(seq, cpos, cpos + size))
    /\ cpos' = cpos + size
    /\ UNCHANGED <<config_vars, pc, session, call_vars, gets, reads, closes,
                   batch_vars,
                   trace_vars, err, result, lines_vars, seq, size>>

\* The range is exhausted.
ChunksEnd ==
    /\ pc = "chunks"
    /\ cpos >= Len(seq)
    /\ pc' = "done"
    /\ UNCHANGED <<config_vars, session, call_vars, gets, reads, closes, batch_vars,
                   trace_vars, err, result, lines_vars, chunk_vars>>

NextChunks == NextChunk \/ ChunksEnd
SpecChunks == InitChunks /\ [][NextChunks]_vars

(***************************************************************************)
(* Properties.                                                              *)
(***************************************************************************)
Last(s) == s[Len(s)]
Elems(s) == {s[i] : i \in 1..Len(s)}

\* The GETs issued by the call of _get_response that is running, or by the
\* latest one when none is.
CallGets == gets - gets0

\* The reader is in the loop of _get_response.
InLoop == pc \in {"get", "wait", "sleep"}

\* Every GET of the call so far got another status than 200.
AllFailed == responses # <<>> /\ \A i \in 1..Len(responses) : responses[i].status # 200

\* The GETs of the call got other statuses than 200, then 200 on the last.
SucceededLast ==
    /\ responses # <<>>
    /\ Last(responses).status = 200
    /\ \A i \in 1..(Len(responses) - 1) : responses[i].status # 200

\* The url with the encoded params, as the failure message has to show it.
ExpectedUrl ==
    IF cur_params = DictParams(<<Pair("s", "A")>>)
       \/ cur_params = ListParams(<<Pair("s", "A")>>)
    THEN <<Url, "?", "s", "=", "A">>
    ELSE IF cur_params = DictParams(<<Pair("s", "A"), Pair("crumb", "c0")>>)
    THEN <<Url, "?", "s", "=", "A", "&", "crumb", "=", "c0">>
    ELSE <<Url>>

\* C1: with retry_count = N (0 included), params None, a dict or a list of
\* pairs, every GET answered by a status other than 200 and _output_error
\* never returning True, the call of _get_response has issued exactly N + 1
\* GETs when it ends, and it ends in a RemoteDataError whose message shows
\* the url, followed by "?" and the encoded params when params is not empty.
C1_ExhaustedRetries ==
    (pc = "done" /\ ~HasBare(cur_params) /\ AllFailed /\ ~stopped) =>
        /\ CallGets = retry_count + 1
        /\ Len(responses) = retry_count + 1
        /\ err.type = "RemoteDataError"
        /\ Len(err.msg) >= 1 + Len(ExpectedUrl)
        /\ SubSeq(err.msg, 2, 1 + Len(ExpectedUrl)) = ExpectedUrl
        /\ result = NoResult

C1_Witness ==
    /\ pc = "done"
    /\ retry_count = 2
    /\ AllFailed
    /\ ~stopped
    /\ CallGets = 3
    /\ cur_params = DictParams(<<Pair("s", "A")>>)
    /\ err = [type |-> "RemoteDataError",
              msg |-> <<"Unable to read URL: ", Url, "?", "s", "=", "A">>]

\* A list with a bare string that is not the crumb token, given to a session
\* whose get accepts it: line 170 raises the ValueError of urlencode after the
\* last attempt, or its TypeError when the bare string is the first element.
C1_UrlencodeRaises ==
    /\ pc = "done"
    /\ AllFailed
    /\ ~stopped
    /\ CallGets = retry_count + 1
    /\ \/ /\ cur_params = ListParams(<<Pair("s", "A"), Bare("token")>>)
          /\ err = Raise("ValueError")
       \/ /\ cur_params = ListParams(<<Bare("token")>>)
          /\ err = Raise("TypeError")

\* What ends a call of _get_response whose GETs all failed, whatever params
\* is: lines 169-175, unless the crumb line has raised before.
ExhaustedEndsInLine170 ==
    (pc = "done" /\ ~HasCrumb(cur_params) /\ AllFailed) =>
        /\ err = UnableToRead(Url, cur_params, last_response_text)
        /\ HasBare(cur_params) => err.type \in {"ValueError", "TypeError"}

\* The get of requests refuses a list with a bare string before anything is
\* sent: read() raises its ValueError without a GET or a sleep.
GetRefusesBareList ==
    (kind = "base" /\ session_get = "requests" /\ HasBare(cur_params)
     /\ pc = "done" /\ reads > 0 /\ provider.url
     /\ provider.format \in {"string", "json"}) =>
        /\ err = Raise("ValueError")
        /\ CallGets = 0
        /\ responses = <<>>
        /\ sleeps = <<>>

GetRefusesBareListReached ==
    /\ kind = "base"
    /\ session_get = "requests"
    /\ cur_params = ListParams(<<Pair("s", "A"), Bare("crumb")>>)
    /\ pc = "done"
    /\ err = Raise("ValueError")
    /\ gets = 0
    /\ session = "closed"

\* C2: when the GETs of a call of _get_response are answered by other
\* statuses on attempts 1..k-1 and by 200 on attempt k (params as in C1),
\* then k <= retry_count + 1, exactly k GETs were issued, the call returned
\* the response of attempt k and raised nothing.
C2_SuccessOnAttemptK ==
    (pc = "done" /\ ~HasCrumb(cur_params) /\ SucceededLast) =>
        /\ CallGets = Len(responses)
        /\ CallGets <= retry_count + 1
        /\ returned = Last(responses)
        /\ err.type \notin {"RemoteDataError", "NotImplementedError", "TypeError",
                            "ValueError"}
        /\ (provider.format = "string" /\ returned.content = "csv") =>
              (err = NoErr /\ result = Table(read_lines(returned.rows)))
        /\ provider.format = "json" => err = Raise("JSONDecodeError")

C2_Witness ==
    /\ pc = "done"
    /\ retry_count = 2
    /\ SucceededLast
    /\ Len(responses) = 3
    /\ CallGets = 3
    /\ returned = Last(responses)
    /\ err = NoErr
    /\ result = Table(<<Row(1, "x")>>)

\* A provider of the json format gets no table from a 200 with delimited
\* text: .json() raises.
C2_JsonRaises ==
    /\ pc = "done"
    /\ provider.format = "json"
    /\ SucceededLast
    /\ returned.content = "csv"
    /\ err = Raise("JSONDecodeError")
    /\ result = NoResult

\* The loops of _dl_mult_symbols have recorded every symbol as passed or
\* failed and the read has ended.
BatchDone ==
    /\ kind = "daily"
    /\ ~symbols.single
    /\ pc = "done"
    /\ pos >= 1
    /\ Len(passed) + Len(failed) = Len(symbols.seq)

\* C3: a batch read in which every symbol passed or failed with an OSError
\* or a KeyError, and at least one passed, returns a combined table and
\* raises nothing, whether some of the others failed or none did.
C3_FailsOnlyIfNonePassed ==
    (BatchDone /\ Len(passed) >= 1) => (err = NoErr /\ result.kind = "wide")

\* The table fetched last for symbol s.
LastFetched(s) ==
    fetched[CHOOSE i \in 1..Len(passed) :
                /\ passed[i] = s
                /\ \A j \in (i + 1)..Len(passed) : passed[j] # s]

\* tbl is all-missing and has the shape of the table shape.
IsPlaceholder(tbl, shape) ==
    /\ Len(tbl) = Len(shape)
    /\ \A i \in 1..Len(tbl) : tbl[i].date = shape[i].date /\ tbl[i].val = "nan"

\* The frame returned has, for symbol s, the values of tbl at the dates of
\* tbl and the missing value at every other date.
Carries(s, tbl) ==
    /\ DatesOf(tbl) \subseteq DatesOf(result.stocks[s])
    /\ \A k \in 1..Len(result.stocks[s]) :
          result.stocks[s][k].val = At(tbl, result.stocks[s][k].date)

\* The frame returned has the missing value at every date for symbol s.
AllMissing(s) ==
    \A k \in 1..Len(result.stocks[s]) : result.stocks[s][k].val = "nan"

\* What C4 says of a batch that has ended with passed and failed symbols.
PartialFailureResult ==
    /\ err = NoErr
    /\ result.kind = "wide"
    /\ DOMAIN result.stocks = Elems(symbols.seq)
    /\ \A s \in Elems(passed) \ Elems(failed) : Carries(s, LastFetched(s))
    /\ \A s \in Elems(failed) :
          /\ AllMissing(s)
          /\ IsPlaceholder(stocks[s], LastFetched(passed[1]))

\* C4: in a batch read where some symbols passed and some failed with an
\* OSError or a KeyError, the batch is not aborted: the table returned has an
\* entry for every requested symbol, a symbol that passed (and did not also
\* fail) has the values of the table fetched for it, a symbol that failed has
\* the missing value throughout, its placeholder of the shape of the first
\* passed symbol's table, and one warning names each failed symbol.
C4_PartialFailure ==
    /\ (kind = "daily" /\ ~symbols.single) => warned = failed
    /\ (kind = "daily" /\ ~symbols.single /\ pc = "done" /\ Len(passed) >= 1) =>
          err.type \notin {"OSError", "KeyError", "RemoteDataError",
                           "JSONDecodeError"}
    /\ (BatchDone /\ Len(passed) >= 1 /\ Len(failed) >= 1) => PartialFailureResult

\* A frame of stocks has the same date in two of its rows.
FrameDuplicates == \E s \in DOMAIN stocks : HasDuplicates(stocks[s])

\* What the code does instead: a response of two rows with the same date
\* is kept whole by _read_lines (see C8), and line 278 raises ValueError on a
\* frame with a date twice: the batch is aborted. In a batch whose frames
\* have no date twice the result is as C4 says.
PartialFailureUnlessDuplicates ==
    (BatchDone /\ Len(passed) >= 1 /\ Len(failed) >= 1) =>
        IF FrameDuplicates
        THEN err = Raise("ValueError") /\ result = NoResult
        ELSE PartialFailureResult

PartialFailureAligned ==
    /\ BatchDone
    /\ symbols.seq = <<"A", "B", "C">>
    /\ passed = <<"A", "C">>
    /\ failed = <<"B">>
    /\ warned = <<"B">>
    /\ err = NoErr
    /\ stocks["B"] = <<Row(1, "nan"), Row(2, "nan")>>
    /\ stocks["C"] = <<Row(1, "x")>>
    /\ result.kind = "wide"
    /\ result.stocks["A"] = <<Row(1, "x"), Row(2, "x")>>
    /\ result.stocks["B"] = <<Row(1, "nan"), Row(2, "nan")>>
    /\ result.stocks["C"] = <<Row(1, "x"), Row(2, "nan")>>

PartialFailureAborted ==
    /\ BatchDone
    /\ symbols.seq = <<"A", "B">>
    /\ passed = <<"A">>
    /\ failed = <<"B">>
    /\ fetched = <<<<Row(2, "x"), Row(2, "y")>>>>
    /\ err = Raise("ValueError")
    /\ result = NoResult

\* C5: a batch read over a non-empty collection in which no symbol passed
\* and none raised anything but an OSError or a KeyError has attempted
\* every symbol in order, warned for each, and ends in the RemoteDataError
\* that names the reader's class; it returns no table.
C5_TotalFailure ==
    (kind = "daily" /\ ~symbols.single /\ pc = "done" /\ pos >= 1
     /\ passed = <<>>
     /\ err.type \notin {"NotImplementedError", "ParserError"}) =>
        /\ failed = symbols.seq
        /\ warned = symbols.seq
        /\ err = [type |-> "RemoteDataError",
                  msg |-> <<"No data fetched using ", "_DailyBaseReader">>]
        /\ result = NoResult

C5_Witness ==
    /\ kind = "daily"
    /\ pc = "done"
    /\ symbols = [single |-> FALSE, seq |-> <<"A", "B", "C">>]
    /\ passed = <<>>
    /\ failed = <<"A", "B", "C">>
    /\ warned = <<"A", "B", "C">>
    /\ gets >= 3
    /\ err.type = "RemoteDataError"
    /\ err.msg = <<"No data fetched using ", "_DailyBaseReader">>

\* read() of the reader has been called and has returned or raised.
ReadEnded == pc = "done" /\ reads > 0

\* C6: once read() of a _BaseReader has returned or raised, the session is
\* closed: after a table was returned, after the RemoteDataError of
\* exhausted retries, after the OSError of an empty body, after a parse
\* error, and after the NotImplementedError of a provider without url. Every
\* read() that has ended has closed it once, whatever the user of the reader
\* closed besides.
C6_BaseReadClosesSession ==
    /\ (kind = "base" /\ ReadEnded) => (session = "closed" /\ closes >= reads)
    /\ (kind = "base" /\ InLoop) => closes >= reads - 1

C6_Witness ==
    /\ kind = "base"
    /\ pc = "done"
    /\ err.type = "OSError"
    /\ err.msg = <<"_BaseReader",
                   " request returned no data; check URL for invalid inputs: ", Url>>
    /\ gets = 1
    /\ reads = 1
    /\ closes = 1
    /\ session = "closed"

\* close() by the user of the reader during the sleep after the first GET:
\* the second GET is issued on the closed session, and read() closes it again.
C6_ClosedWhileSleeping ==
    kind = "base" /\ pc = "sleep" /\ gets = 1 /\ closes = 1 /\ session = "closed"
C6_ClosedTwice ==
    /\ kind = "base"
    /\ pc = "done"
    /\ reads = 1
    /\ gets = 2
    /\ closes = 2
    /\ session = "closed"
    /\ err = NoErr

\* read() called a second time: one more GET, one more close.
C6_SecondRead ==
    /\ kind = "base"
    /\ pc = "done"
    /\ reads = 2
    /\ gets = 2
    /\ gets0 = 1
    /\ closes = 2
    /\ err = NoErr
    /\ result.kind = "table"

\* The other exit paths of C6 are reached too.
C6_ExitReturned == kind = "base" /\ pc = "done" /\ err = NoErr /\ result.kind = "table"
C6_ExitRemoteData == kind = "base" /\ pc = "done" /\ err.type = "RemoteDataError"
C6_ExitParse == kind = "base" /\ pc = "done" /\ err.type = "ParserError"
C6_ExitNoUrl ==
    kind = "base" /\ pc = "done" /\ err.type = "NotImplementedError" /\ ~provider.url

\* C7: once read() of a reader has returned or raised, the batch reader
\* _DailyBaseReader included, the reader's session is closed.
C7_EveryReadClosesSession == ReadEnded => session = "closed"

\* What read() of the daily reader leaves behind instead: the session is
\* closed by no call of read(), however often it is called. Every close of
\* a daily reader's session is the user's.
DailyReadNeverCloses ==
    [][(kind = "daily" /\ closes' # closes) => (pc' = pc /\ reads' = reads)]_vars

\* read() of a daily reader called a second time: a single symbol is fetched
\* again with one more GET, a collection of two with two more; the session
\* was never closed. After a read() that raised without a GET (the lookup
\* of _get_params failed) the second returns the table of the only GET.
DailySecondRead ==
    /\ kind = "daily"
    /\ IsSingle(symbols)
    /\ pc = "done"
    /\ reads = 2
    /\ gets = 2
    /\ closes = 0
    /\ session = "open"
    /\ begun = <<"A">>
    /\ result = Table(read_lines(T1))
DailySecondBatchRead ==
    /\ kind = "daily"
    /\ symbols = [single |-> FALSE, seq |-> <<"A", "B">>]
    /\ pc = "done"
    /\ reads = 2
    /\ gets = 4
    /\ closes = 0
    /\ passed = <<"A">>
    /\ failed = <<"B">>
    /\ warned = <<"B">>
    /\ result.kind = "wide"
DailyReadAfterRaise ==
    /\ kind = "daily"
    /\ IsSingle(symbols)
    /\ pc = "done"
    /\ reads = 2
    /\ gets = 1
    /\ result = Table(read_lines(T1))

\* The last two rows of the reversed table have the same date.
TrailingDuplicate(rs) == Len(rs) >= 2 /\ rs[Len(rs)].date = rs[Len(rs) - 1].date

\* out is rs without one of its last two rows, the others in place.
OneOfLastTwoDropped(rs, out) ==
    \/ out = SubSeq(rs, 1, Len(rs) - 1)
    \/ out = SubSeq(rs, 1, Len(rs) - 2) \o <<rs[Len(rs)]>>

\* C8: for a parsed table of any length >= 2 whose last two rows
\* after the reversal have the same date, _read_lines returns only one of
\* the two, and the other rows in reversed source order.
C8_DropsTrailingDuplicate ==
    (pc = "done" /\ TrailingDuplicate(Reverse(rs_in))) =>
        OneOfLastTwoDropped(Reverse(rs_in), rs_out)

\* What _read_lines does instead: it drops one of the two for a table of
\* length >= 3; a table of exactly two rows is returned whole (reversed) even
\* when both have the same date, and so is every table without the trailing
\* duplicate.
DropsTrailingDuplicateOfThree ==
    pc = "done" =>
        IF Len(rs_in) >= 3 /\ TrailingDuplicate(Reverse(rs_in))
        THEN OneOfLastTwoDropped(Reverse(rs_in), rs_out)
        ELSE rs_out = Reverse(rs_in)

\* C9: _in_chunks(seq, size) with size >= 1 yields contiguous chunks in the
\* original order: their concatenation is seq, every chunk but the last has
\* size elements, the last has between 1 and size, and there are
\* ceil(len(seq) / size) of them: none for an empty seq, and chunks of 25, 25
\* and 10 elements for a seq of 60 with size 25.
C9_InChunksPartitions ==
    /\ Flatten(chunks) = SubSeq(seq, 1, Len(Flatten(chunks)))
    /\ (pc = "chunks" /\ Len(seq) = 0) => chunks = <<>>
    /\ (pc = "done" /\ size >= 1) =>
          /\ Flatten(chunks) = seq
          /\ chunks = in_chunks(seq, size)
          /\ \A i \in 1..(Len(chunks) - 1) : Len(chunks[i]) = size
          /\ chunks # <<>> => (1 <= Len(Last(chunks)) /\ Len(Last(chunks)) <= size)
          /\ Len(chunks) * size >= Len(seq)
          /\ (Len(chunks) - 1) * size < Len(seq) \/ (seq = <<>> /\ chunks = <<>>)
          /\ (Len(seq) = 60 /\ size = 25) =>
                (Len(chunks) = 3 /\ Len(chunks[1]) = 25 /\ Len(chunks[2]) = 25
                 /\ Len(chunks[3]) = 10)

C9_Witness ==
    /\ pc = "done"
    /\ Len(seq) = 60
    /\ size = 25
    /\ Len(chunks) = 3
    /\ Len(chunks[3]) = 10
    /\ chunks[3][1] = 51

\* C10: __init__ with a retry_count that is no integer or is negative raises
\* ValueError at once, before the session is initialised and without a GET;
\* with any integer retry_count >= 0, 0 included, it raises nothing and
\* stores the value unchanged.
C10_RetryCountValidated ==
    /\ (pc # "new" /\ (~arg_retry_count.int \/ arg_retry_count.val < 0)) =>
          /\ pc = "done"
          /\ err.type = "ValueError"
          /\ session = "none"
          /\ gets = 0
          /\ closes = 0
          /\ reads = 0
    /\ (pc # "new" /\ arg_retry_count.int /\ arg_retry_count.val >= 0) =>
          /\ retry_count = arg_retry_count.val
          /\ session # "none"
    /\ pc = "ready" => (err = NoErr /\ gets = 0 /\ reads = 0)
    /\ (pc = "ready" /\ closes = 0) => session = "open"

C10_Witness ==
    /\ pc = "done"
    /\ arg_retry_count = [int |-> TRUE, val |-> -1]
    /\ err.type = "ValueError"
    /\ session = "none"
    /\ gets = 0

\* A retry_count of 0 is accepted.
C10_ZeroAccepted ==
    pc = "ready" /\ arg_retry_count = [int |-> TRUE, val |-> 0] /\ retry_count = 0

\* The latest GET of the call was answered 200 with a body of length 0, which
\* _read_url_as_StringIO is the one to read.
EmptyBody ==
    /\ provider.format = "string"
    /\ responses # <<>>
    /\ Last(responses).status = 200
    /\ Last(responses).content = "empty"

\* C11: a fetch whose GET is answered 200 with an empty body is tried again,
\* up to retry_count + 1 GETs in all, and a fetch that ends on an empty body
\* ends in a RemoteDataError that shows the url.
C11_EmptyBodyRetried ==
    (kind = "base" /\ pc = "done" /\ EmptyBody) =>
        /\ CallGets = retry_count + 1
        /\ err.type = "RemoteDataError"
        /\ Len(err.msg) >= 2
        /\ err.msg[2] = Url

\* What the code does instead: the first 200 ends the loop of _get_response,
\* and the empty body raises the OSError of line 117 with no further GET.
EmptyBodyRaisesOSError ==
    (kind = "base" /\ pc = "done" /\ EmptyBody) =>
        /\ err = NoData("base")
        /\ returned = Last(responses)
        /\ CallGets = Len(responses)
        /\ \A i \in 1..(Len(responses) - 1) : responses[i].status # 200

\* read() of a _DailyBaseReader was given a single symbol.
SingleRead == kind = "daily" /\ symbols.single

\* C12: read() of a _DailyBaseReader on a single symbol makes exactly one
\* fetch, for that symbol: nothing is chunked, no warning is emitted and no
\* placeholder is made, and what the fetch raises (the RemoteDataError of
\* exhausted retries, the OSError of an empty body, or anything else) is what
\* read() raises; when the fetch returns, read() returns its table.
C12_SingleSymbolNoBatching ==
    /\ SingleRead =>
          /\ pos = 0
          /\ stocks = NoStocks
          /\ passed = <<>>
          /\ failed = <<>>
          /\ warned = <<>>
          /\ fetched = <<>>
    /\ (SingleRead /\ InLoop) => begun = symbols.seq
    /\ (SingleRead /\ ReadEnded) =>
          /\ begun = symbols.seq
          /\ err.type = exc
          /\ (exc = "none") = (result.kind = "table")
          /\ exc # "none" => result = NoResult
          /\ AllFailed =>
                err = UnableToRead(Url, DictParams(<<Pair("s", symbols.seq[1])>>),
                                   last_response_text)
          /\ EmptyBody => err = NoData("daily")

C12_Witness ==
    /\ SingleRead
    /\ pc = "done"
    /\ symbols.seq = <<"B">>
    /\ begun = <<"B">>
    /\ retry_count = 1
    /\ gets = 2
    /\ AllFailed
    /\ warned = <<>>
    /\ failed = <<>>
    /\ result = NoResult
    /\ err = [type |-> "RemoteDataError",
              msg |-> <<"Unable to read URL: ", Url, "?", "s", "=", "B">>]

\* A single-symbol fetch that ends on an empty body raises its OSError.
C12_EmptyBodyPropagates ==
    SingleRead /\ pc = "done" /\ EmptyBody /\ err.type = "OSError" /\ gets = 1

\* The loop of _get_response is about to issue a GET only if the call has
\* made at most retry_count GETs, none of them answered 200, and
\* _output_error has not returned True.
MayGet ==
    /\ Len(responses) <= retry_count
    /\ \A i \in 1..Len(responses) : responses[i].status # 200
    /\ ~stopped

\* The GETs of the call are its responses and the GET not answered yet.
AttemptsBounded ==
    /\ CallGets = Len(responses) + (IF pc = "wait" THEN 1 ELSE 0)
    /\ CallGets <= retry_count + 1
    /\ pc \in {"get", "wait"} => MayGet

\* C13: whatever the endpoint answers and whatever _output_error returns,
\* in every state the call of _get_response has issued at most
\* retry_count + 1 GETs, every GET is issued in a state where no earlier GET of
\* the call was answered 200 and _output_error has not returned True, and a
\* call that has begun ends: it returns or raises.
C13_GetResponseTerminates ==
    /\ []AttemptsBounded
    /\ [][gets' # gets => (gets' = gets + 1 /\ pc = "get" /\ MayGet)]_vars
    /\ InLoop ~> (pc = "done")

C13_Witness ==
    /\ pc = "done"
    /\ provider.output_error = "custom"
    /\ retry_count = 2
    /\ CallGets = 3
    /\ AllFailed
    /\ ~stopped
    /\ err.type = "RemoteDataError"

\* C14: when _output_error returns True on the response of attempt k, which
\* was not a 200, the loop ends there: the call has issued exactly k GETs,
\* k <= retry_count + 1, and ends in the RemoteDataError of _get_response;
\* with the _output_error of base.py, which returns False, the loop never ends
\* early: a call whose GETs all fail issues retry_count + 1 of them (params
\* as in C1).
C14_ClassifierStopsEarly ==
    /\ stopped =>
          /\ pc = "done"
          /\ AllFailed
          /\ CallGets = Len(responses)
          /\ CallGets <= retry_count + 1
          /\ err = UnableToRead(Url, cur_params, last_response_text)
          /\ ~HasBare(cur_params) => err.type = "RemoteDataError"
          /\ result = NoResult
    /\ provider.output_error = "default" =>
          /\ ~stopped
          /\ (pc = "done" /\ AllFailed /\ ~HasCrumb(cur_params)) =>
                CallGets = retry_count + 1

C14_Witness ==
    /\ stopped
    /\ provider.output_error = "custom"
    /\ retry_count = 2
    /\ CallGets = 1
    /\ Len(responses) = 1
    /\ pc = "done"
    /\ err.type = "RemoteDataError"

\* The stop on the second of three possible attempts.
C14_StopOnSecond == stopped /\ retry_count = 2 /\ CallGets = 2 /\ pc = "done"

\* params is a list that contains the crumb token and the latest GET of the
\* call was not answered 200.
CrumbAttemptFailed ==
    /\ kind = "base"
    /\ HasCrumb(cur_params)
    /\ responses # <<>>
    /\ Last(responses).status # 200

\* C15: when params is a list that contains the crumb token, the provider
\* implements _get_crumb, and an attempt is not answered 200, the token is
\* refreshed and the loop goes on: while attempts remain the call stays in its
\* loop, where the next GET is issued, and a call whose GETs all fail ends
\* after retry_count + 1 of them in the RemoteDataError of _get_response.
C15_CrumbRefreshedAndRetried ==
    (CrumbAttemptFailed /\ provider.get_crumb = "custom") =>
        /\ Len(responses) <= retry_count => InLoop
        /\ pc = "done" =>
              (CallGets = retry_count + 1 /\ err.type = "RemoteDataError")

\* What the code does instead. With the get of requests no attempt is made:
\* the list is refused before anything is sent (GetRefusesBareList). With a
\* get that accepts the list, params["crumb"] = ... on a list raises
\* TypeError once _get_crumb has returned, and the _get_crumb of base.py
\* raises NotImplementedError; either ends the call after the sleep that
\* follows its first failed GET. With any other params the line is not
\* reached.
CrumbListRaises ==
    /\ CrumbAttemptFailed =>
          /\ session_get = "custom"
          /\ Len(responses) = 1
          /\ CallGets = 1
          /\ sleeps = <<pause>>
          /\ pc \in {"sleep", "done"}
          /\ pc = "done" =>
                err = Raise(IF provider.get_crumb = "custom" THEN "TypeError"
                            ELSE "NotImplementedError")
    /\ (kind = "base" /\ ~HasCrumb(cur_params) /\ provider.url
        /\ provider.format \in {"string", "json"}) =>
          err.type # "NotImplementedError"

CrumbListRaisesReached ==
    /\ CrumbAttemptFailed
    /\ provider.get_crumb = "custom"
    /\ retry_count = 2
    /\ pc = "done"
    /\ CallGets = 1
    /\ err = Raise("TypeError")

\* rs without its second-to-last row, the last row kept.
WithoutSecondToLast(rs) == SubSeq(rs, 1, Len(rs) - 2) \o <<rs[Len(rs)]>>

\* C16: when the last two rows of the reversed table have the same date
\* (in a table of three rows or more, where _read_lines drops one of them),
\* the row dropped is the second-to-last and the last row is kept.
C16_DropsSecondToLast ==
    (pc = "done" /\ Len(rs_in) >= 3 /\ TrailingDuplicate(Reverse(rs_in))) =>
        rs_out = WithoutSecondToLast(Reverse(rs_in))

\* What the code does instead: rs[:-1] drops the last row of the reversed
\* table, which is the first row of the source, and keeps the second-to-last.
DropsLastRow ==
    (pc = "done" /\ Len(rs_in) >= 3 /\ TrailingDuplicate(Reverse(rs_in))) =>
        /\ rs_out = SubSeq(Reverse(rs_in), 1, Len(rs_in) - 1)
        /\ Last(rs_out) = rs_in[2]

RECURSIVE Pow(_, _)
Pow(b, e) == IF e = 0 THEN 1 ELSE b * Pow(b, e - 1)

\* The GETs of the call so far that were not answered 200.
NonOk == {i \in 1..Len(responses) : responses[i].status # 200}

\* C17: within one call of _get_response there is exactly one sleep for
\* every response that was not a 200 and none for a 200; the sleep has taken
\* place when _output_error has returned True, when the crumb line has
\* raised, and after the last attempt; the i-th sleep lasts
\* pause * pause_multiplier^(i-1), which is pause when the multiplier is 1.
C17_SleepsBackOff ==
    /\ Len(sleeps) = Cardinality(NonOk)
    /\ \A i \in 1..Len(sleeps) : sleeps[i] = pause * Pow(pause_multiplier, i - 1)
    /\ pause_multiplier = 1 => \A i \in 1..Len(sleeps) : sleeps[i] = pause
    /\ (stopped \/ CrumbAttemptFailed \/ (pc = "done" /\ AllFailed)) =>
          Len(sleeps) = Len(responses)
    /\ (responses # <<>> /\ Last(responses).status = 200) =>
          Len(sleeps) = Len(responses) - 1
    /\ pc = "sleep" =>
          /\ Last(responses).status # 200
          /\ Len(sleeps) = Len(responses)
          /\ Last(sleeps) = cur_pause
          /\ ~stopped
          /\ err = NoErr

C17_Witness ==
    /\ pc = "done"
    /\ pause = 2
    /\ pause_multiplier = 2
    /\ retry_count = 2
    /\ AllFailed
    /\ sleeps = <<2, 4, 8>>

\* Two sleeps, then a 200 and no third sleep.
C17_NoSleepAfterSuccess ==
    pc = "done" /\ Len(responses) = 3 /\ Last(responses).status = 200
    /\ sleeps = <<2, 4>>

\* The reader is in its sleep after the last attempt, _output_error not yet
\* consulted.
C17_SleepAfterLastAttempt ==
    pc = "sleep" /\ retry_count = 1 /\ Len(responses) = 2 /\ sleeps = <<2, 2>>

\* read() of a _DailyBaseReader was given a collection of symbols.
BatchRead == kind = "daily" /\ ~symbols.single

\* The call of _get_response that is running has the budget and the pause of
\* a first call: it has made at most retry_count GETs, all of them failed,
\* and its pause is the configured one, backed off once per GET of its own.
FreshBudget ==
    (kind = "daily" /\ pc \in {"get", "wait"}) =>
        /\ Len(responses) <= retry_count
        /\ \A i \in 1..Len(responses) : responses[i].status # 200
        /\ Len(sleeps) = Len(responses)
        /\ cur_pause = pause * Pow(pause_multiplier, Len(responses))
        /\ responses = <<>> => cur_pause = pause

\* C18: no step of a constructed reader, a pass of the loop of
\* _get_response included, changes its pause, retry_count or
\* pause_multiplier; in a batch read the fetch of every symbol starts with
\* the configured pause and no attempt used, whatever the fetches before it
\* used, and it ends in the RemoteDataError of exhausted retries only on its
\* own GET number retry_count + 1.
C18_RetryStatePerFetch ==
    /\ []FreshBudget
    /\ [][pc # "new" => /\ pause' = pause
                        /\ retry_count' = retry_count
                        /\ pause_multiplier' = pause_multiplier]_vars
    /\ [][(BatchRead /\ pc = "sleep" /\ exc' = "RemoteDataError") =>
              (Len(responses) = retry_count + 1 /\ CallGets = retry_count + 1)]_vars

\* The second symbol is on its second attempt, with the pause backed off
\* once, after the first symbol has used both of its attempts.
C18_Witness ==
    /\ BatchRead
    /\ pc = "get"
    /\ retry_count = 1
    /\ begun = <<"A", "B">>
    /\ failed = <<"A">>
    /\ exc = "none"
    /\ gets = 3
    /\ CallGets = 1
    /\ Len(responses) = 1
    /\ pause = 2
    /\ cur_pause = 4

\* The second symbol starts with the configured pause.
C18_FreshStart ==
    /\ BatchRead
    /\ pc = "get"
    /\ failed = <<"A">>
    /\ gets = 2
    /\ CallGets = 0
    /\ responses = <<>>
    /\ cur_pause = 2

\* How many times x occurs in s.
Count(s, x) == Cardinality({i \in 1..Len(s) : s[i] = x})

\* The fetches recorded as passed or failed.
Recorded == Len(passed) + Len(failed)

\* The loops of _dl_mult_symbols have run to their end: read() has ended and
\* the last fetch returned or raised what line 264 catches.
LoopEnded ==
    /\ BatchRead
    /\ ReadEnded
    /\ exc \in {"none", "OSError", "RemoteDataError", "JSONDecodeError", "KeyError"}

\* C19: a batch read fetches the symbols one after the other in input
\* order, each position once: the fetches begun are a prefix of the input, a
\* GET is issued only for the symbol begun last and only when every symbol
\* before it is recorded as passed or failed, and when the loops have ended
\* every input position is in passed or failed exactly once (for distinct
\* symbols the two are disjoint and their union is the input set).
C19_SequentialInOrder ==
    BatchRead =>
        /\ Len(begun) <= Len(symbols.seq)
        /\ begun = SubSeq(symbols.seq, 1, Len(begun))
        /\ \A s \in Symbols :
              Count(passed, s) + Count(failed, s) <= Count(begun, s)
        /\ pc = "symbol" => Recorded = Len(begun)
        /\ InLoop =>
              /\ begun # <<>>
              /\ cur_params = DictParams(<<Pair("s", Last(begun))>>)
              /\ Recorded = Len(begun) - 1
        /\ LoopEnded =>
              /\ begun = symbols.seq
              /\ Recorded = Len(symbols.seq)
              /\ \A s \in Symbols :
                    Count(passed, s) + Count(failed, s) = Count(symbols.seq, s)
              /\ Cardinality(Elems(symbols.seq)) = Len(symbols.seq) =>
                    /\ Elems(passed) \cap Elems(failed) = {}
                    /\ Elems(passed) \cup Elems(failed) = Elems(symbols.seq)

\* Three symbols in chunks of two, the second one failing.
C19_Witness ==
    /\ LoopEnded
    /\ chunksize = 2
    /\ symbols.seq = <<"A", "B", "C">>
    /\ begun = <<"A", "B", "C">>
    /\ passed = <<"A", "C">>
    /\ failed = <<"B">>
    /\ gets = 3

\* The third symbol's first GET is about to be issued, the first two recorded.
C19_ThirdAfterTwo ==
    /\ BatchRead
    /\ pc = "get"
    /\ responses = <<>>
    /\ begun = <<"A", "B", "C">>
    /\ passed = <<"A">>
    /\ failed = <<"B">>

\* The exception types line 264 catches: KeyError and the OSErrors, the
\* RemoteDataError of _get_response and the JSONDecodeError of requests
\* among them.
Demoted == {"OSError", "RemoteDataError", "JSONDecodeError", "KeyError"}

\* The latest fetch of the batch raised something line 264 does not catch.
Aborted == BatchRead /\ exc \notin Demoted \cup {"none"}

\* The batch goes on only after a fetch that returned or raised an OSError
\* (a RemoteDataError included) or a KeyError; after any other exception
\* read() has raised it, with nothing recorded or warned for that symbol.
AbortPropagates ==
    /\ (BatchRead /\ (pc = "symbol" \/ InLoop)) => exc \in Demoted \cup {"none"}
    /\ BatchRead => warned = failed
    /\ Aborted =>
          /\ pc = "done"
          /\ err.type = exc
          /\ result = NoResult
          /\ Recorded = Len(begun) - 1
          /\ begun = SubSeq(symbols.seq, 1, Len(begun))

\* C20: in a batch read a symbol is recorded as failed, with its warning,
\* only in a step in which its fetch raised an OSError (a RemoteDataError
\* included) or a KeyError; a fetch that raises anything else (the
\* NotImplementedError of a missing hook, a parse error) records nothing, ends
\* read() in that step with that exception, and no fetch or GET follows
\* until read() is called again.
C20_OnlyRecoverableDemoted ==
    /\ []AbortPropagates
    /\ [][(BatchRead /\ reads' = reads /\ failed' # failed) =>
              /\ exc' \in Demoted
              /\ failed' = Append(failed, Last(begun'))
              /\ warned' = Append(warned, Last(begun'))
              /\ passed' = passed]_vars
    /\ [][(BatchRead /\ exc' \notin Demoted \cup {"none"}) =>
              /\ pc' = "done"
              /\ err'.type = exc'
              /\ failed' = failed
              /\ passed' = passed]_vars
    /\ [][(Aborted /\ reads' = reads) => (begun' = begun /\ gets' = gets)]_vars

\* The second of three symbols has an unparseable body: the first passed,
\* the third is never fetched.
C20_Witness ==
    /\ Aborted
    /\ pc = "done"
    /\ symbols.seq = <<"A", "B", "C">>
    /\ begun = <<"A", "B">>
    /\ passed = <<"A">>
    /\ failed = <<>>
    /\ warned = <<>>
    /\ gets = 2
    /\ err.type = "ParserError"
    /\ result = NoResult

\* A missing _get_params hook aborts the batch on its first symbol.
C20_MissingHook ==
    /\ Aborted
    /\ provider.get_params = "default"
    /\ Len(symbols.seq) = 3
    /\ begun = <<"A">>
    /\ gets = 0
    /\ err.type = "NotImplementedError"

\* A KeyError of the second symbol is demoted and the third is fetched.
C20_KeyErrorDemoted ==
    /\ BatchRead
    /\ pc = "get"
    /\ begun = <<"A", "B", "C">>
    /\ passed = <<"A">>
    /\ failed = <<"B">>
    /\ gets = 1

\* With a provider of the json format the JSONDecodeError of a 200 is
\* demoted like any OSError: every symbol is fetched and warned for.
C20_JsonDemoted ==
    /\ BatchRead
    /\ pc = "done"
    /\ provider.format = "json"
    /\ exc = "JSONDecodeError"
    /\ symbols.seq = <<"A", "B">>
    /\ failed = <<"A", "B">>
    /\ warned = <<"A", "B">>
    /\ gets = 2
    /\ err = NoDataFetched("daily")

====
